---- MODULE Spec2Model ----
(***************************************************************************)
(* Model of src/main.rs of Open-tuning-analyzer: the chord-symbol parser,  *)
(* the tonal-depth engine, the interval labeler and the App state driven   *)
(* by the key-event loop.                                                  *)
(*                                                                         *)
(* A Rust String / &str is modelled as a sequence of characters, each      *)
(* character a TLA+ string: the character itself when it is ASCII, its     *)
(* code point ("U+00E9") otherwise. The UTF-8 width of a character is      *)
(* kept, since the parser mixes byte lengths, byte-index slices and char   *)
(* iteration.                                                              *)
(***************************************************************************)
EXTENDS Integers, Sequences, FiniteSets, TLC

VARIABLES
    chord_str,      \* argument of parse_chord_v5
    parsed,         \* its outcome
    chord_notes,    \* argument of calculate_tonal_depth
    depth_result,   \* its outcome
    notes,          \* ui: pitch classes of one row's chord
    row,            \* ui: the row's analysis
    root_idx,       \* get_interval_label arguments
    target_idx,
    interval,       \* its outcome
    input,          \* App.input
    progression,    \* App.progression
    tuning_input,   \* App.tuning_input
    tuning,         \* App.tuning
    key,            \* App.key
    input_mode,     \* App.input_mode
    running,        \* main: the event loop has neither broken out nor panicked
    nEvents         \* number of key events read so far

parseVars == <<chord_str, parsed>>
depthVars == <<chord_notes, depth_result>>
rowVars   == <<notes, row>>
labelVars == <<root_idx, target_idx, interval>>
appVars   == <<input, progression, tuning_input, tuning, input_mode, running, nEvents>>
vars == <<chord_str, parsed, chord_notes, depth_result, notes, row,
          root_idx, target_idx, interval,
          input, progression, tuning_input, tuning, key, input_mode, running, nEvents>>

----------------------------------------------------------------------------
(* Bounds *)

MaxLen == 4          \* longest chord string given to parse_chord_v5
MaxNotes == 4        \* longest pitch-class slice given to calculate_tonal_depth
MaxRowNotes == 3     \* longest pitch-class sequence of a ui row
MaxEvents == 5       \* key events read by the event loop

\* characters a chord string is built from (U+00E9, e acute, is two bytes in UTF-8)
Chars == {"C", "D", "G", "A", "B", "#", "b", "m", "7", "/", " ", "U+00E9"}
\* characters the keyboard delivers as KeyCode::Char
KeyChars == {"G", "#", " ", "U+00E9"}

PitchClasses == 0..11

----------------------------------------------------------------------------
(* Rust str primitives *)

\* char::len_utf8
Utf8Len(c) == IF c \in {"U+00E9", "U+00F8"} THEN 2 ELSE 1

\* str::len: the length in bytes
RECURSIVE ByteLen(_)
ByteLen(s) == IF s = <<>> THEN 0 ELSE Utf8Len(Head(s)) + ByteLen(Tail(s))

\* str::is_char_boundary
IsCharBoundary(s, n) == \E k \in 0..Len(s) : ByteLen(SubSeq(s, 1, k)) = n

\* number of characters in the first n bytes (n a char boundary)
CharsIn(s, n) == CHOOSE k \in 0..Len(s) : ByteLen(SubSeq(s, 1, k)) = n

\* &s[0..n] and &s[n..]; both panic unless n is a char boundary
SliceTo(s, n) == SubSeq(s, 1, CharsIn(s, n))
SliceFrom(s, n) == SubSeq(s, CharsIn(s, n) + 1, Len(s))

\* char::is_whitespace
IsWhitespace(c) == c = " "

RECURSIVE TrimStart(_)
TrimStart(s) == IF s # <<>> /\ IsWhitespace(Head(s)) THEN TrimStart(Tail(s)) ELSE s

RECURSIVE TrimEnd(_)
TrimEnd(s) ==
    IF s # <<>> /\ IsWhitespace(s[Len(s)]) THEN TrimEnd(SubSeq(s, 1, Len(s) - 1)) ELSE s

\* str::trim
trim(s) == TrimEnd(TrimStart(s))

\* str::split(sep).collect(): always at least one part, empty parts kept
RECURSIVE SplitFrom(_, _, _)
SplitFrom(s, sep, cur) ==
    IF s = <<>> THEN <<cur>>
    ELSE IF Head(s) = sep THEN <<cur>> \o SplitFrom(Tail(s), sep, <<>>)
    ELSE SplitFrom(Tail(s), sep, Append(cur, Head(s)))

split(s, sep) == SplitFrom(s, sep, <<>>)

\* str::split_whitespace().collect(): the maximal runs of non-whitespace
RECURSIVE SplitWsFrom(_, _)
SplitWsFrom(s, cur) ==
    IF s = <<>> THEN (IF cur = <<>> THEN <<>> ELSE <<cur>>)
    ELSE IF IsWhitespace(Head(s))
         THEN (IF cur = <<>> THEN <<>> ELSE <<cur>>) \o SplitWsFrom(Tail(s), <<>>)
    ELSE SplitWsFrom(Tail(s), Append(cur, Head(s)))

split_whitespace(s) == SplitWsFrom(s, <<>>)

\* Vec::contains
Contains(seq, x) == \E i \in 1..Len(seq) : seq[i] = x

\* iter().cloned().collect::<HashSet<_>>()
ToSet(seq) == {seq[i] : i \in 1..Len(seq)}

Abs(x) == IF x < 0 THEN -x ELSE x

----------------------------------------------------------------------------
(* Tables *)

\* mutant: "Db" entered with the pitch class of D
get_note_mapping_DbAsD ==
    (<<"C">> :> 0) @@ (<<"C", "#">> :> 1) @@ (<<"D", "b">> :> 2) @@
    (<<"D">> :> 2) @@ (<<"D", "#">> :> 3) @@ (<<"E", "b">> :> 3) @@
    (<<"E">> :> 4) @@
    (<<"F">> :> 5) @@ (<<"F", "#">> :> 6) @@ (<<"G", "b">> :> 6) @@
    (<<"G">> :> 7) @@ (<<"G", "#">> :> 8) @@ (<<"A", "b">> :> 8) @@
    (<<"A">> :> 9) @@ (<<"A", "#">> :> 10) @@ (<<"B", "b">> :> 10) @@
    (<<"B">> :> 11)

get_note_mapping ==
    (<<"C">> :> 0) @@ (<<"C", "#">> :> 1) @@ (<<"D", "b">> :> 1) @@
    (<<"D">> :> 2) @@ (<<"D", "#">> :> 3) @@ (<<"E", "b">> :> 3) @@
    (<<"E">> :> 4) @@
    (<<"F">> :> 5) @@ (<<"F", "#">> :> 6) @@ (<<"G", "b">> :> 6) @@
    (<<"G">> :> 7) @@ (<<"G", "#">> :> 8) @@ (<<"A", "b">> :> 8) @@
    (<<"A">> :> 9) @@ (<<"A", "#">> :> 10) @@ (<<"B", "b">> :> 10) @@
    (<<"B">> :> 11)

idx_to_note_name(idx) ==
    CASE idx % 12 = 0 -> <<"C">>
      [] idx % 12 = 1 -> <<"D", "b">>
      [] idx % 12 = 2 -> <<"D">>
      [] idx % 12 = 3 -> <<"E", "b">>
      [] idx % 12 = 4 -> <<"E">>
      [] idx % 12 = 5 -> <<"F">>
      [] idx % 12 = 6 -> <<"F", "#">>
      [] idx % 12 = 7 -> <<"G">>
      [] idx % 12 = 8 -> <<"A", "b">>
      [] idx % 12 = 9 -> <<"A">>
      [] idx % 12 = 10 -> <<"B", "b">>
      [] idx % 12 = 11 -> <<"B">>
      [] OTHER -> <<"?">>

get_quality_intervals(quality) ==
    CASE quality \in {<<>>, <<"M">>, <<"m", "a", "j">>} -> <<0, 4, 7>>
      [] quality \in {<<"m">>, <<"m", "i", "n">>, <<"-">>} -> <<0, 3, 7>>
      [] quality \in {<<"d", "i", "m">>, <<"o">>} -> <<0, 3, 6>>
      [] quality \in {<<"a", "u", "g">>, <<"+">>} -> <<0, 4, 8>>
      [] quality \in {<<"s", "u", "s", "4">>, <<"s", "u", "s">>} -> <<0, 5, 7>>
      [] quality = <<"s", "u", "s", "2">> -> <<0, 2, 7>>
      [] quality \in {<<"7">>, <<"d", "o", "m", "7">>} -> <<0, 4, 7, 10>>
      [] quality \in {<<"M", "7">>, <<"m", "a", "j", "7">>, <<"M", "a", "j", "7">>,
                      <<"j", "q">>} -> <<0, 4, 7, 11>>
      [] quality \in {<<"m", "7">>, <<"m", "i", "n", "7">>, <<"-", "7">>} -> <<0, 3, 7, 10>>
      [] quality \in {<<"m", "M", "7">>, <<"m", "M", "a", "j", "7">>} -> <<0, 3, 7, 11>>
      [] quality \in {<<"d", "i", "m", "7">>, <<"o", "7">>} -> <<0, 3, 6, 9>>
      [] quality \in {<<"m", "7", "-", "5">>, <<"m", "7", "b", "5">>,
                      <<"h", "a", "l", "f", "-", "d", "i", "m">>, <<"U+00F8">>} -> <<0, 3, 6, 10>>
      [] quality = <<"7", "s", "u", "s", "4">> -> <<0, 5, 7, 10>>
      [] quality = <<"6">> -> <<0, 4, 7, 9>>
      [] quality = <<"m", "6">> -> <<0, 3, 7, 9>>
      [] quality = <<"9">> -> <<0, 4, 7, 10, 14>>
      [] quality = <<"a", "d", "d", "9">> -> <<0, 4, 7, 14>>
      [] quality \in {<<"M", "9">>, <<"m", "a", "j", "9">>} -> <<0, 4, 7, 11, 14>>
      [] quality \in {<<"m", "9">>, <<"m", "i", "n", "9">>} -> <<0, 3, 7, 10, 14>>
      [] quality = <<"1", "1">> -> <<0, 4, 7, 10, 14, 17>>
      [] quality = <<"m", "1", "1">> -> <<0, 3, 7, 10, 14, 17>>
      [] quality = <<"1", "3">> -> <<0, 4, 7, 10, 14, 21>>
      [] quality = <<"M", "1", "3">> -> <<0, 4, 7, 11, 14, 21>>
      [] quality = <<"7", "#", "9">> -> <<0, 4, 7, 10, 15>>
      [] quality = <<"7", "b", "9">> -> <<0, 4, 7, 10, 13>>
      [] quality \in {<<"7", "#", "5">>, <<"a", "u", "g", "7">>} -> <<0, 4, 8, 10>>
      [] OTHER -> <<0, 7>>

----------------------------------------------------------------------------
(* parse_chord_v5 *)

\* the (String, String, Vec<u8>) a call returns, or the fact that it panicked
Returned(display_name, quality, ns) ==
    [panicked |-> FALSE, display_name |-> display_name, quality |-> quality, notes |-> ns]

Panicked == [panicked |-> TRUE, display_name |-> <<>>, quality |-> <<>>, notes |-> <<>>]

\* mutant: the bass note is pushed at the end
AddBass_Push(ns, bass_str) ==
    IF bass_str # <<>> /\ bass_str \in DOMAIN get_note_mapping
                       /\ ~Contains(ns, get_note_mapping[bass_str])
    THEN Append(ns, get_note_mapping[bass_str])
    ELSE ns

\* step 4: the bass note goes in front unless the chord already has it
AddBass(ns, bass_str) ==
    IF bass_str # <<>> /\ bass_str \in DOMAIN get_note_mapping
                       /\ ~Contains(ns, get_note_mapping[bass_str])
    THEN <<get_note_mapping[bass_str]>> \o ns
    ELSE ns

\* steps 2 (lookup) to the return, for a root and quality already separated
ResolveRoot(root_str, quality_str, bass_str) ==
    IF root_str \notin DOMAIN get_note_mapping
    THEN Returned(<<"E", "r", "r", ":">> \o root_str, <<>>, <<>>)
    ELSE LET r == get_note_mapping[root_str]
             intervals == get_quality_intervals(quality_str)
             ns == [i \in 1..Len(intervals) |-> (r + intervals[i]) % 12]
         IN  Returned(IF bass_str # <<>> THEN root_str \o <<"/">> \o bass_str ELSE root_str,
                      quality_str,
                      AddBass(ns, bass_str))

\* step 2: the root is one or two BYTES of the symbol, chosen by its second CHAR
RootSeparation(symbol, bass_str) ==
    IF ByteLen(symbol) > 1
    THEN IF Len(symbol) < 2
         THEN Panicked                                  \* chars().nth(1).unwrap() on None
         ELSE LET cut == IF symbol[2] \in {"#", "b"} THEN 2 ELSE 1
              IN  IF ~IsCharBoundary(symbol, cut)
                  THEN Panicked                         \* slice inside a character
                  ELSE ResolveRoot(SliceTo(symbol, cut), SliceFrom(symbol, cut), bass_str)
    ELSE ResolveRoot(symbol, <<>>, bass_str)

parse_chord_v5(inp) ==
    LET s == trim(inp) IN
    IF s = <<>> THEN Returned(<<"?">>, <<>>, <<>>)
    ELSE LET parts == split(s, "/")
             symbol == parts[1]
             bass_str == IF Len(parts) > 1 THEN parts[2] ELSE <<>>
         IN  RootSeparation(symbol, bass_str)

----------------------------------------------------------------------------
(* Specification of parse_chord_v5 over every string of at most MaxLen chars *)

Strings(n) == UNION {[1..m -> Chars] : m \in 0..n}

NotRun == [done |-> FALSE]

IdleApp ==
    /\ input = <<>> /\ progression = <<>> /\ tuning_input = <<>> /\ tuning = <<>>
    /\ key = 0 /\ input_mode = "Chord" /\ running = FALSE /\ nEvents = 0

IdleParse == chord_str = <<>> /\ parsed = NotRun
IdleDepth == chord_notes = <<>> /\ depth_result = NotRun
IdleRow == notes = <<>> /\ row = NotRun
IdleLabel == root_idx = 0 /\ target_idx = 0 /\ interval = NotRun

ParseInit ==
    /\ chord_str \in Strings(MaxLen)
    /\ parsed = NotRun
    /\ IdleDepth /\ IdleRow /\ IdleLabel /\ IdleApp

Parse ==
    /\ parsed = NotRun
    /\ parsed' = [done |-> TRUE, out |-> parse_chord_v5(chord_str)]
    /\ UNCHANGED <<chord_str, depthVars, rowVars, labelVars, appVars, key>>

ParseNext == Parse

SpecParse == ParseInit /\ [][ParseNext]_vars

----------------------------------------------------------------------------
(* Claims about parse_chord_v5, checked under SpecParse *)

\* what a claim about "symbol/bass" talks about: the parts of the trimmed input
PartsOf(inp) == split(trim(inp), "/")
SymbolOf(inp) == PartsOf(inp)[1]
HasSlash(inp) == Len(PartsOf(inp)) > 1
BassOf(inp) == PartsOf(inp)[2]

\* the root spelling by characters: two when the second is '#' or 'b', else one
RootSpelling(symbol) ==
    IF Len(symbol) >= 2 /\ symbol[2] \in {"#", "b"} THEN SubSeq(symbol, 1, 2)
    ELSE IF symbol = <<>> THEN <<>>
    ELSE <<symbol[1]>>

ErrPrefix == <<"E", "r", "r", ":">>
BeginsWithErr(name) == Len(name) >= 4 /\ SubSeq(name, 1, 4) = ErrPrefix

\* C4: for every input string parse_chord_v5 returns a value and never panics.
C4_NeverPanics == parsed.done => ~parsed.out.panicked

\* the relation C5 states between parsing "symbol/bass" and parsing "symbol"
BassRelation(inp, out) ==
    LET base == parse_chord_v5(SymbolOf(inp))
        bass == BassOf(inp)
    IN  /\ ~base.panicked
        /\ IF bass \in DOMAIN get_note_mapping /\ ~Contains(base.notes, get_note_mapping[bass])
           THEN out.notes = <<get_note_mapping[bass]>> \o base.notes
           ELSE out.notes = base.notes

RootResolved(out) == ~out.panicked /\ out.notes # <<>>

TwoCharRoots == {r \in DOMAIN get_note_mapping : Len(r) = 2}
Enharmonics(r) == {q \in TwoCharRoots : q # r /\ get_note_mapping[q] = get_note_mapping[r]}

\* C7: two root spellings of the same pitch class, followed by the same quality
\* and bass, parse to the same pitch-class sequence and the same quality token,
\* and to different display names.
C7_EnharmonicRoots ==
    LET s == trim(chord_str) IN
    (parsed.done /\ Len(s) >= 2 /\ SubSeq(s, 1, 2) \in TwoCharRoots) =>
        /\ ~parsed.out.panicked
        /\ Enharmonics(SubSeq(s, 1, 2)) # {}
        /\ \A q \in Enharmonics(SubSeq(s, 1, 2)) :
              LET other == parse_chord_v5(q \o SubSeq(s, 3, Len(s)))
              IN  /\ ~other.panicked
                  /\ other.notes = parsed.out.notes
                  /\ other.quality = parsed.out.quality
                  /\ other.display_name # parsed.out.display_name

C7_Witness ==
    /\ parsed.done
    /\ chord_str = <<"C", "#", "/", "D">>
    /\ parsed.out.notes = <<2, 1, 5, 8>>
    /\ parse_chord_v5(<<"D", "b", "/", "D">>).notes = <<2, 1, 5, 8>>

\* C8: the root spelling is the first two characters of the symbol when the
\* second is '#' or 'b' and the first otherwise; an unknown root spelling gives
\* "Err:" + root spelling and no pitch classes, a known one gives a display name
\* without "Err:" and at least one pitch class.
C8_RootSpelling ==
    (parsed.done /\ trim(chord_str) # <<>>) =>
        LET root == RootSpelling(SymbolOf(chord_str)) IN
        /\ ~parsed.out.panicked
        /\ IF root \notin DOMAIN get_note_mapping
           THEN parsed.out.display_name = ErrPrefix \o root /\ parsed.out.notes = <<>>
           ELSE ~BeginsWithErr(parsed.out.display_name) /\ parsed.out.notes # <<>>

----------------------------------------------------------------------------
(* calculate_tonal_depth *)

get_scale_mask(root_u8) == {(root_u8 + i) % 12 : i \in {0, 2, 4, 5, 7, 9, 11}}

search_order == <<
    [depth |-> 0, r_idx |-> 0, r_name |-> <<"C">>],
    [depth |-> 1, r_idx |-> 7, r_name |-> <<"G">>],
    [depth |-> -1, r_idx |-> 5, r_name |-> <<"F">>],
    [depth |-> 2, r_idx |-> 2, r_name |-> <<"D">>],
    [depth |-> -2, r_idx |-> 10, r_name |-> <<"B", "b">>],
    [depth |-> 3, r_idx |-> 9, r_name |-> <<"A">>],
    [depth |-> -3, r_idx |-> 3, r_name |-> <<"E", "b">>],
    [depth |-> 4, r_idx |-> 4, r_name |-> <<"E">>],
    [depth |-> -4, r_idx |-> 8, r_name |-> <<"A", "b">>],
    [depth |-> 5, r_idx |-> 11, r_name |-> <<"B">>],
    [depth |-> -5, r_idx |-> 1, r_name |-> <<"D", "b">>],
    [depth |-> 6, r_idx |-> 6, r_name |-> <<"F", "#">>],
    [depth |-> -6, r_idx |-> 6, r_name |-> <<"G", "b">>] >>

Candidate(c) == [depth |-> c.depth, name |-> c.r_name]

\* mutant: a better score is pushed without clearing the candidates
ScanStep_NoClear(acc, c, score) ==
    IF score > acc.max_score
    THEN [max_score |-> score, candidates |-> Append(acc.candidates, Candidate(c))]
    ELSE IF score = acc.max_score
    THEN [max_score |-> acc.max_score, candidates |-> Append(acc.candidates, Candidate(c))]
    ELSE acc

\* the body of the for loop, on (max_score, candidates)
ScanStep(acc, c, score) ==
    IF score > acc.max_score
    THEN [max_score |-> score, candidates |-> <<Candidate(c)>>]
    ELSE IF score = acc.max_score
    THEN [max_score |-> acc.max_score, candidates |-> Append(acc.candidates, Candidate(c))]
    ELSE acc

\* the for loop over search_order, from entry i on
RECURSIVE Scan(_, _, _)
Scan(chord_set, i, acc) ==
    IF i > Len(search_order) THEN acc
    ELSE Scan(chord_set, i + 1,
              ScanStep(acc, search_order[i],
                       Cardinality(chord_set \cap get_scale_mask(search_order[i].r_idx))))

\* mutant: the key is the signed depth
SortKey_Signed(k) == k.depth

\* the key of sort_by_key
SortKey(k) == Abs(k.depth)

\* Vec::sort_by_key, a stable sort: x goes behind every element whose key is
\* not greater
RECURSIVE InsertByKey(_, _)
InsertByKey(sorted, x) ==
    IF sorted = <<>> THEN <<x>>
    ELSE IF SortKey(Head(sorted)) <= SortKey(x)
         THEN <<Head(sorted)>> \o InsertByKey(Tail(sorted), x)
    ELSE <<x>> \o sorted

RECURSIVE SortFrom(_, _, _)
SortFrom(seq, i, sorted) ==
    IF i > Len(seq) THEN sorted ELSE SortFrom(seq, i + 1, InsertByKey(sorted, seq[i]))

sort_by_key(seq) == SortFrom(seq, 1, <<>>)

\* Vec::truncate
truncate(seq, n) == IF Len(seq) > n THEN SubSeq(seq, 1, n) ELSE seq

calculate_tonal_depth(cn) ==
    LET chord_set == ToSet(cn)
        total == Cardinality(chord_set)
        scan == Scan(chord_set, 1, [max_score |-> 0, candidates |-> <<>>])
        is_perfect == scan.max_score = total
    IN  [candidates |-> IF is_perfect /\ scan.candidates # <<>>
                        THEN truncate(sort_by_key(scan.candidates), 1)
                        ELSE scan.candidates,
         max_score |-> scan.max_score,
         is_perfect |-> is_perfect]

----------------------------------------------------------------------------
(* Specification of calculate_tonal_depth over every slice of at most MaxNotes *)
(* pitch classes                                                              *)

NoteSeqs(n) == UNION {[1..m -> PitchClasses] : m \in 0..n}

DepthInit ==
    /\ chord_notes \in NoteSeqs(MaxNotes)
    /\ depth_result = NotRun
    /\ IdleParse /\ IdleRow /\ IdleLabel /\ IdleApp

Analyze ==
    /\ depth_result = NotRun
    /\ depth_result' = [done |-> TRUE, out |-> calculate_tonal_depth(chord_notes)]
    /\ UNCHANGED <<chord_notes, parseVars, rowVars, labelVars, appVars, key>>

DepthNext == Analyze

SpecDepth == DepthInit /\ [][DepthNext]_vars

----------------------------------------------------------------------------
(* Claims about calculate_tonal_depth, checked under SpecDepth *)

Entries == 1..Len(search_order)
Fits(S, i) == S \subseteq get_scale_mask(search_order[i].r_idx)
ScoreOf(S, i) == Cardinality(S \cap get_scale_mask(search_order[i].r_idx))

\* entry i is nearer than entry j: smaller absolute depth, or the same and earlier
Nearer(i, j) ==
    \/ Abs(search_order[i].depth) < Abs(search_order[j].depth)
    \/ Abs(search_order[i].depth) = Abs(search_order[j].depth) /\ i <= j

\* C1: when some candidate scale contains every distinct pitch class, the result
\* is perfect and is exactly the one fitting candidate of smallest absolute
\* depth, the earliest in visitation order among equals; {0,4,7} gives (0, "C").
C1_PerfectMatchSingle ==
    LET S == ToSet(chord_notes) IN
    (depth_result.done /\ \E i \in Entries : Fits(S, i)) =>
        /\ depth_result.out.is_perfect
        /\ \E i \in Entries :
              /\ Fits(S, i)
              /\ \A j \in Entries : Fits(S, j) => Nearer(i, j)
              /\ depth_result.out.candidates = <<Candidate(search_order[i])>>
        /\ (S = {0, 4, 7} =>
              depth_result.out.candidates = <<[depth |-> 0, name |-> <<"C">>]>>)

C1_Witness ==
    /\ depth_result.done
    /\ chord_notes = <<0, 4, 7>>
    /\ depth_result.out.candidates = <<[depth |-> 0, name |-> <<"C">>]>>
    /\ Cardinality({i \in Entries : Fits({0, 4, 7}, i)}) > 1

IsBest(S, i) == \A j \in Entries : ScoreOf(S, j) <= ScoreOf(S, i)

RECURSIVE BestFrom(_, _)
BestFrom(S, i) ==
    IF i > Len(search_order) THEN <<>>
    ELSE (IF IsBest(S, i) THEN <<Candidate(search_order[i])>> ELSE <<>>) \o BestFrom(S, i + 1)

\* C2: when no candidate scale contains every distinct pitch class, the result
\* is not perfect and is every candidate of maximal intersection, and no other,
\* in visitation order; the diminished seventh {1,4,7,10} gives more than one.
C2_AmbiguousKeepsAllTied ==
    LET S == ToSet(chord_notes) IN
    (depth_result.done /\ ~\E i \in Entries : Fits(S, i)) =>
        /\ ~depth_result.out.is_perfect
        /\ depth_result.out.candidates = BestFrom(S, 1)
        /\ \E i \in Entries : IsBest(S, i) /\ depth_result.out.max_score = ScoreOf(S, i)
        /\ (S = {1, 4, 7, 10} => Len(depth_result.out.candidates) > 1)

C2_Witness ==
    /\ depth_result.done
    /\ chord_notes = <<1, 4, 7, 10>>
    /\ ~depth_result.out.is_perfect
    /\ Len(depth_result.out.candidates) > 1

\* C3: with no pitch classes the result is an empty candidate list, score 0 and
\* isPerfectMatch false.
C3_EmptyIsDegenerate ==
    (depth_result.done /\ ToSet(chord_notes) = {}) =>
        /\ depth_result.out.candidates = <<>>
        /\ depth_result.out.max_score = 0
        /\ ~depth_result.out.is_perfect

----------------------------------------------------------------------------
(* ui: the analysis of one row, for a chord's pitch classes and App.key *)

\* u8 arithmetic that wraps (a release build)
U8(x) == x % 256

\* mutant: the difference is taken without adding 12 first
RelativeNote_NoBias(n, k) == U8(n - k) % 12

\* a chord note relative to the tonal center
RelativeNote(n, k) == (n + 12 - k) % 12

\* map.get(name).unwrap_or(&0)
NoteIdxOr0(name) == IF name \in DOMAIN get_note_mapping THEN get_note_mapping[name] ELSE 0

\* a candidate as displayed: its depth and the name of its absolute key
DisplayCandidate(c, k) ==
    [depth |-> c.depth, name |-> idx_to_note_name((NoteIdxOr0(c.name) + k) % 12)]

relative_notes(ns, k) == [i \in 1..Len(ns) |-> RelativeNote(ns[i], k)]

\* display_candidates[0] is indexed when the match is perfect
IndexPanics(r) == r.is_perfect /\ r.candidates = <<>>

ui_row(ns, k) ==
    LET r == calculate_tonal_depth(relative_notes(ns, k))
    IN  [display_candidates |->
             [i \in 1..Len(r.candidates) |-> DisplayCandidate(r.candidates[i], k)],
         score |-> r.max_score,
         perfect |-> r.is_perfect,
         panicked |-> IndexPanics(r)]

RowInit ==
    /\ notes \in NoteSeqs(MaxRowNotes)
    /\ key \in PitchClasses
    /\ row = NotRun
    /\ input = <<>> /\ progression = <<>> /\ tuning_input = <<>> /\ tuning = <<>>
    /\ input_mode = "Chord" /\ running = FALSE /\ nEvents = 0
    /\ IdleParse /\ IdleDepth /\ IdleLabel

AnalyzeRow ==
    /\ row = NotRun
    /\ row' = [done |-> TRUE, out |-> ui_row(notes, key)]
    /\ UNCHANGED <<notes, key, parseVars, depthVars, labelVars, appVars>>

RowNext == AnalyzeRow

SpecRow == RowInit /\ [][RowNext]_vars

Depths(cands) == [i \in 1..Len(cands) |-> cands[i].depth]
KeyPcs(cands) == [i \in 1..Len(cands) |-> get_note_mapping[cands[i].name]]

\* C6: the row of a chord under tonal center key has the depths, the score and
\* the perfect flag of the row of the chord moved down by key under tonal
\* center 0, and each of its keys is that row's key moved up by key.
C6_TranspositionInvariant ==
    row.done =>
        LET S == [i \in 1..Len(notes) |-> (notes[i] - key) % 12]
            base == ui_row(S, 0)
        IN  /\ ~row.out.panicked
            /\ Depths(row.out.display_candidates) = Depths(base.display_candidates)
            /\ row.out.score = base.score
            /\ row.out.perfect = base.perfect
            /\ KeyPcs(row.out.display_candidates)
                 = [i \in 1..Len(base.display_candidates) |->
                      (KeyPcs(base.display_candidates)[i] + key) % 12]

C6_Witness ==
    /\ row.done
    /\ notes = <<2, 6, 9>>
    /\ key = 2
    /\ row.out.display_candidates = <<[depth |-> 0, name |-> <<"D">>]>>
    /\ row.out.perfect

----------------------------------------------------------------------------
(* get_interval_label *)

DegreeNames == <<"R", "b9", "9", "m3", "M3", "11", "#11", "5", "b13", "13", "m7", "M7">>

\* mutant: target - root, without the 12
IntervalDiff_NoBias(r, t) ==
    [overflow |-> t - r < 0, diff |-> U8(t - r) % 12]

\* (target_idx + 12 - root_idx) % 12 in u8; overflow tells whether an
\* intermediate value left 0..255 (a panic in a debug build, a wrap otherwise)
IntervalDiff(r, t) ==
    [overflow |-> t + 12 > 255 \/ U8(t + 12) - r < 0,
     diff |-> U8(U8(t + 12) - r) % 12]

get_interval_label(r, t) ==
    LET d == IntervalDiff(r, t) IN
    [overflow |-> d.overflow,
     label |-> IF d.diff \in 0..11 THEN DegreeNames[d.diff + 1] ELSE "?"]

LabelInit ==
    /\ root_idx \in PitchClasses
    /\ target_idx \in PitchClasses
    /\ interval = NotRun
    /\ IdleParse /\ IdleDepth /\ IdleRow /\ IdleApp

Label ==
    /\ interval = NotRun
    /\ interval' = [done |-> TRUE, out |-> get_interval_label(root_idx, target_idx)]
    /\ UNCHANGED <<root_idx, target_idx, parseVars, depthVars, rowVars, appVars, key>>

LabelNext == Label

SpecLabel == LabelInit /\ [][LabelNext]_vars

\* C9: for pitch classes root and target the label is the degree name at index
\* (target - root + 12) mod 12, never "?", computed without u8 overflow;
\* label(0,1) = "b9", label(0,7) = "5", label(5,0) = "5".
C9_IntervalLabelTotal ==
    interval.done =>
        /\ ~interval.out.overflow
        /\ interval.out.label # "?"
        /\ \E d \in 0..11 :
              /\ (root_idx + d) % 12 = target_idx
              /\ interval.out.label =
                   <<"R", "b9", "9", "m3", "M3", "11", "#11", "5", "b13", "13", "m7", "M7">>[d + 1]
        /\ (root_idx = 0 /\ target_idx = 1 => interval.out.label = "b9")
        /\ (root_idx = 0 /\ target_idx = 7 => interval.out.label = "5")
        /\ (root_idx = 5 /\ target_idx = 0 => interval.out.label = "5")

C9_Witness ==
    /\ interval.done
    /\ root_idx = 5
    /\ target_idx = 0
    /\ interval.out.label = "5"

----------------------------------------------------------------------------
(* App and the event loop of main *)

InitialProgression ==
    << <<"F", "m", "9">>, <<"C", "/", "B", "b">>, <<"G", "1", "3">>,
       <<"D", "b", "d", "i", "m", "7">> >>

InitialTuningInput == <<"C", " ", "G", " ", "D", " ", "G", " ", "A", " ", "D">>

InitialTuning == <<0, 7, 2, 7, 9, 2>>

\* the fields submit reads and writes
AppFields == [input |-> input, progression |-> progression,
              tuning_input |-> tuning_input, tuning |-> tuning]

\* if !self.input.is_empty() { progression = split_whitespace; input.clear() }
SubmitChord(a) ==
    IF a.input # <<>>
    THEN [a EXCEPT !.progression = split_whitespace(a.input), !.input = <<>>]
    ELSE a

TuningOf(text) ==
    LET toks == split_whitespace(text) IN [i \in 1..Len(toks) |-> NoteIdxOr0(toks[i])]

\* mutant: the tuning is replaced whatever the number of tokens
SubmitTuning_AnyCount(a) ==
    IF a.tuning_input # <<>>
    THEN [a EXCEPT !.tuning = TuningOf(a.tuning_input)]
    ELSE a

\* if !tuning_input.is_empty() && split_whitespace().count() == 6 { tuning = ... }
SubmitTuning(a) ==
    IF a.tuning_input # <<>> /\ Len(split_whitespace(a.tuning_input)) = 6
    THEN [a EXCEPT !.tuning = TuningOf(a.tuning_input)]
    ELSE a

\* App::submit: the arm of the input mode, then both updates again
submit(a, mode) ==
    SubmitTuning(SubmitChord(IF mode = "Chord" THEN SubmitChord(a) ELSE SubmitTuning(a)))

\* String::pop
pop(s) == IF s = <<>> THEN s ELSE SubSeq(s, 1, Len(s) - 1)

\* terminal.draw(ui) panics when a row's chord makes parse_chord_v5 panic, or
\* when a perfect row has no candidate to index
DrawPanics ==
    \E i \in 1..Len(progression) :
        LET p == parse_chord_v5(progression[i]) IN
        p.panicked \/ IndexPanics(calculate_tonal_depth(relative_notes(p.notes, key)))

AppInit ==
    /\ input = <<>>
    /\ progression = InitialProgression
    /\ tuning_input = InitialTuningInput
    /\ tuning = InitialTuning
    /\ input_mode = "Chord"
    /\ key = 0
    /\ running = TRUE
    /\ nEvents = 0
    /\ IdleParse /\ IdleDepth /\ IdleRow /\ IdleLabel

\* an iteration of the loop that draws and reads a key press
Reads ==
    /\ running
    /\ ~DrawPanics
    /\ nEvents < MaxEvents
    /\ nEvents' = nEvents + 1
    /\ UNCHANGED <<parseVars, depthVars, rowVars, labelVars>>

\* the draw at the top of the loop panics: the process aborts
DrawPanic ==
    /\ running
    /\ DrawPanics
    /\ running' = FALSE
    /\ UNCHANGED <<input, progression, tuning_input, tuning, key, input_mode, nEvents,
                   parseVars, depthVars, rowVars, labelVars>>

KeyEsc ==
    /\ Reads
    /\ running' = FALSE
    /\ UNCHANGED <<input, progression, tuning_input, tuning, key, input_mode>>

KeyEnter ==
    /\ Reads
    /\ LET a == submit(AppFields, input_mode) IN
        /\ input' = a.input
        /\ progression' = a.progression
        /\ tuning_input' = a.tuning_input
        /\ tuning' = a.tuning
    /\ UNCHANGED <<key, input_mode, running>>

KeyUp ==
    /\ Reads
    /\ key' = (key + 1) % 12
    /\ UNCHANGED <<input, progression, tuning_input, tuning, input_mode, running>>

KeyDown ==
    /\ Reads
    /\ key' = (key + 11) % 12
    /\ UNCHANGED <<input, progression, tuning_input, tuning, input_mode, running>>

KeyChar(c) ==
    /\ Reads
    /\ IF input_mode = "Chord"
       THEN input' = Append(input, c) /\ UNCHANGED tuning_input
       ELSE tuning_input' = Append(tuning_input, c) /\ UNCHANGED input
    /\ UNCHANGED <<progression, tuning, key, input_mode, running>>

KeyBackspace ==
    /\ Reads
    /\ IF input_mode = "Chord"
       THEN input' = pop(input) /\ UNCHANGED tuning_input
       ELSE tuning_input' = pop(tuning_input) /\ UNCHANGED input
    /\ UNCHANGED <<progression, tuning, key, input_mode, running>>

KeyTab ==
    /\ Reads
    /\ input_mode' = IF input_mode = "Chord" THEN "Tuning" ELSE "Chord"
    /\ UNCHANGED <<input, progression, tuning_input, tuning, key, running>>

AppNext ==
    \/ DrawPanic
    \/ KeyEsc
    \/ KeyEnter
    \/ KeyUp
    \/ KeyDown
    \/ \E c \in KeyChars : KeyChar(c)
    \/ KeyBackspace
    \/ KeyTab

SpecApp == AppInit /\ [][AppNext]_vars

\* C10: in every state reached from App::new by key events the tuning has 6
\* entries, each a pitch class, and the key is a pitch class; a submit with a
\* tuning text of 6 tokens sets each entry to its token's pitch class, 0 for a
\* token that is no note name, and any other submit leaves the tuning unchanged.
C10_TuningShape ==
    /\ [](/\ Len(tuning) = 6
          /\ \A i \in 1..Len(tuning) : tuning[i] \in PitchClasses
          /\ key \in PitchClasses)
    /\ [][KeyEnter =>
            LET toks == split_whitespace(tuning_input) IN
            IF Len(toks) = 6
            THEN \A i \in 1..6 :
                    tuning'[i] = IF toks[i] \in DOMAIN get_note_mapping
                                 THEN get_note_mapping[toks[i]] ELSE 0
            ELSE tuning' = tuning]_vars

C10_Witness ==
    /\ tuning = <<0, 7, 2, 7, 9, 0>>
    /\ tuning_input = InitialTuningInput \o <<"#", "#">>
    /\ input_mode = "Tuning"

====
